---- MODULE Spec2Model ----
(***************************************************************************)
(* A model of tactikcheck's analyzer.py: the score normaliser              *)
(* (score_to_cp), the severity classifier (classify), the retrieval chain  *)
(* (Analyzer.fetch_pgns), the game walker (Analyzer.analyze_pgn), the run  *)
(* (main) and the trainer of the generated page (initTrainer).             *)
(*                                                                         *)
(* Abstractions.  A game text is an atom of Games; str.strip() of a text   *)
(* that holds a game is that game; an item or an HTTP body that holds k    *)
(* games separated by the "\n\n[Event " marker is the sequence of its k    *)
(* games, which is what split_pgn_bulk makes of it.  A position is the     *)
(* pair (side to move, number of moves replayed), which determines the     *)
(* FEN for one fixed move list.  Python integers are unbounded, so no      *)
(* width is kept.                                                          *)
(***************************************************************************)
EXTENDS Integers, Sequences, FiniteSets, TLC

VARIABLES
    clsArgs,    \* classify: [x, y, th], the two deltas and the thresholds
    clsRes,     \* classify: the results so far, <<classify(x), classify(y)>>
    scArg,      \* score_to_cp: [pov, color], a PovScore and the perspective asked
    scRes,      \* score_to_cp: <<>> or <<the integer returned>>
    cfg,        \* Analyzer: [thresholds, min_cp_show, who], set by __init__
    engine,     \* Analyzer.engine: "none" (None), "open", or "dead" (set, process gone)
    game,       \* analyze_pgn: the game text given, [kind, start, n]
    wpc,        \* analyze_pgn: where the call stands
    node,       \* analyze_pgn: number of moves the node cursor has passed
    ply,        \* analyze_pgn: ply
    board,      \* analyze_pgn: board, [turn, pushed]
    loc,        \* analyze_pgn: the locals of the current iteration
    result,     \* analyze_pgn: the result dict, [header, errors]
    qlog,       \* analyze_pgn: the oracle queries of this call, [q, pos, ply]
    opens,      \* Analyzer._engine: connections opened so far (popen_uci returned)
    oracleFail, \* whether the oracle could not be started or has died
    perf,       \* fetch_pgns: whether self.perf names a speed filter
    fpc,        \* fetch_pgns: where the call stands
    userInfo,   \* fetch_pgns: what the user lookup gave
    idx,        \* fetch_pgns: the attempt the running loop is at
    all_pgns,   \* fetch_pgns: all_pgns
    attemptLog, \* fetch_pgns: the attempts issued so far, [via, filtered, outcome, got]
    exc,        \* fetch_pgns: the message of the RuntimeError raised, "" if none
    rpc,        \* main: where the run stands
    mpgns,      \* main: pgns, the game texts fetch_pgns returned
    gi,         \* main: the game the loop of line 588 is at (1-based)
    analyzed,   \* main: analyzed
    outcomes,   \* main: per game handled, [out, flagged, replayed]: how
                \* analyze_pgn ended and how many moves it had pushed
                \* and how many records it had flagged by then
    rendered,   \* render_gallery: <<>> or <<total_games>> once the page is written
    quits,      \* Analyzer.close: number of engine.quit() calls
    status,     \* main: "" while running, then "ok" or "error" (the exit)
    card,       \* trainer: the card, [side, promo] of its pre-move position and best move
    tgame,      \* trainer: game, the moves made on top of the pre-move position
    tshown,     \* trainer: the moves the board shows on top of the pre-move position
    tsel,       \* trainer: whether selected holds a square
    tpending,   \* trainer: number of setTimeout reversions not yet run
    tsuccess,   \* trainer: whether the success control (okBtn) is shown
    tmsg,       \* trainer: the message shown, "", "ok" or "bad"
    tlog        \* trainer: the last handler outcomes, [ev, depth]

pureVars == <<clsArgs, clsRes, scArg, scRes>>
walkVars == <<cfg, engine, game, wpc, node, ply, board, loc, result, qlog,
              opens, oracleFail>>
fetchVars == <<perf, fpc, userInfo, idx, all_pgns, attemptLog, exc>>
runVars == <<rpc, mpgns, gi, analyzed, outcomes, rendered, quits, status>>
trainVars == <<card, tgame, tshown, tsel, tpending, tsuccess, tmsg, tlog>>

(***************************************************************************)
(* Bounds                                                                  *)
(***************************************************************************)
MaxCut == 3
MaxMate == 3
MaxPlies == 2
MaxItems == 2
MaxBulk == 2
MaxGames == 2
RunPlies == 2
MaxDepth == 3
MaxLog == 3

(***************************************************************************)
(* score_to_cp and the python-chess Score values it reads                  *)
(***************************************************************************)
MATE == 100000

WHITE == TRUE
BLACK == FALSE

Cp(n) == [kind |-> "cp", v |-> n]
Mate(k) == [kind |-> "mate", v |-> k]
MateGiven == [kind |-> "mate_given", v |-> 0]

\* Score.is_mate(): self.mate() is not None
is_mate(s) == s.kind # "cp"

\* Python's None
None == "none"

\* Score.mate(): the moves of a Mate, 0 of MateGiven, None of a Cp
mate(s) ==
    CASE s.kind = "mate" -> s.v
      [] s.kind = "mate_given" -> 0
      [] OTHER -> None

\* Score.score(mate_score=ms)
score(s, ms) ==
    CASE s.kind = "cp" -> s.v
      [] s.kind = "mate_given" -> ms
      [] OTHER -> IF s.v > 0 THEN ms - s.v ELSE (0 - ms) - s.v

\* Score.__neg__
Neg(s) ==
    CASE s.kind = "cp" -> Cp(0 - s.v)
      [] s.kind = "mate_given" -> Mate(0)
      [] OTHER -> IF s.v = 0 THEN MateGiven ELSE Mate(0 - s.v)

\* PovScore.pov(color)
pov(p, color) == IF p.turn = color THEN p.relative ELSE Neg(p.relative)

\* Python truthiness of an int (score_to_cp reads m of a mate score only)
Truthy(m) == m # 0

score_to_cp(s) ==
    IF is_mate(s)
    THEN LET m == mate(s) IN IF Truthy(m) /\ m > 0 THEN MATE ELSE 0 - MATE
    ELSE score(s, MATE)

(***************************************************************************)
(* classify                                                                *)
(***************************************************************************)

\* mutant: the labels of the two upper tiers exchanged
MutClassifySwapped(delta_cp, thresholds) ==
    IF delta_cp >= thresholds.blunder THEN "mistake"
    ELSE IF delta_cp >= thresholds.mistake THEN "blunder"
    ELSE IF delta_cp >= thresholds.inaccuracy THEN "inaccuracy"
    ELSE None

\* mutant: the cutoffs checked from the least severe up
MutClassifyLowFirst(delta_cp, thresholds) ==
    IF delta_cp >= thresholds.inaccuracy THEN "inaccuracy"
    ELSE IF delta_cp >= thresholds.mistake THEN "mistake"
    ELSE IF delta_cp >= thresholds.blunder THEN "blunder"
    ELSE None

classify(delta_cp, thresholds) ==
    IF delta_cp >= thresholds.blunder THEN "blunder"
    ELSE IF delta_cp >= thresholds.mistake THEN "mistake"
    ELSE IF delta_cp >= thresholds.inaccuracy THEN "inaccuracy"
    ELSE None

(***************************************************************************)
(* The pure functions applied to inputs drawn from bounded sets            *)
(***************************************************************************)
CutVals == -1 .. MaxCut
DeltaVals == -2 .. (MaxCut + 1)
AllThresholds == [inaccuracy : CutVals, mistake : CutVals, blunder : CutVals]

CpSamples == {-300, -40, 0, 120, 99999}
RelScores == {Cp(n) : n \in CpSamples}
             \cup {Mate(k) : k \in (0 - MaxMate) .. MaxMate}
             \cup {MateGiven}
PovScores == [relative : RelScores, turn : BOOLEAN]

NoArg == [x |-> 0, y |-> 0, th |-> [inaccuracy |-> 0, mistake |-> 0, blunder |-> 0]]
NoScArg == [pov |-> [relative |-> Cp(0), turn |-> WHITE], color |-> WHITE]

ClassifyInit ==
    /\ clsArgs \in [x : DeltaVals, y : DeltaVals, th : AllThresholds]
    /\ clsRes = <<>>

ClassifyIdle == clsArgs = NoArg /\ clsRes = <<>>

ScoreInit ==
    /\ scArg \in [pov : PovScores, color : BOOLEAN]
    /\ scRes = <<>>

ScoreIdle == scArg = NoScArg /\ scRes = <<>>

\* classify(x, th), then classify(y, th)
ClassifyCall ==
    /\ Len(clsRes) < 2
    /\ clsRes' = Append(clsRes,
                        classify(IF Len(clsRes) = 0 THEN clsArgs.x ELSE clsArgs.y,
                                 clsArgs.th))
    /\ UNCHANGED <<clsArgs, scArg, scRes>>
    /\ UNCHANGED walkVars
    /\ UNCHANGED runVars
    /\ UNCHANGED trainVars
    /\ UNCHANGED fetchVars

\* score_to_cp(povscore.pov(color)), as analyze_pgn calls it
ScoreCall ==
    /\ scRes = <<>>
    /\ scRes' = <<score_to_cp(pov(scArg.pov, scArg.color))>>
    /\ UNCHANGED <<clsArgs, clsRes, scArg>>
    /\ UNCHANGED walkVars
    /\ UNCHANGED runVars
    /\ UNCHANGED trainVars
    /\ UNCHANGED fetchVars

(***************************************************************************)
(* Analyzer configuration: main's arguments, or the constructor's defaults *)
(***************************************************************************)
Max(a, b) == IF a >= b THEN a ELSE b

DefaultThresholds == [inaccuracy |-> 50, mistake |-> 150, blunder |-> 300]

\* main: thresholds and min_cp_show from --min-cp, --mistake, --blunder
MainConfig(min_cp, mistake, blunder, who) ==
    [thresholds |-> [inaccuracy |-> Max(0, min_cp), mistake |-> mistake,
                     blunder |-> blunder],
     min_cp_show |-> min_cp,
     who |-> who]

\* Analyzer(...) with thresholds=None: the default thresholds and any floor
CtorConfig(min_cp_show, who) ==
    [thresholds |-> DefaultThresholds, min_cp_show |-> min_cp_show, who |-> who]

MinCpArgs == {-500, 50}
MistakeArgs == {-200, 150}
BlunderArgs == {300}
FloorArgs == {160, 161}
WhoArgs == BOOLEAN \X BOOLEAN

Configs ==
    {MainConfig(a, m, b, w) : a \in MinCpArgs, m \in MistakeArgs,
                              b \in BlunderArgs, w \in WhoArgs}
    \cup {CtorConfig(f, w) : f \in FloorArgs, w \in WhoArgs}

(***************************************************************************)
(* Analyzer.analyze_pgn                                                    *)
(***************************************************************************)
\* What the oracle can answer, relative to the side to move of the position
\* it was asked about (that position has a legal move: no mate in 0).
WalkScores == {Cp(-40), Cp(120), Mate(1), Mate(-1)}
RunScores == {Cp(-40), Cp(120)}
\* engine.play answers with one of the legal moves of the position asked about
BestMoves(b) == {[pos |-> b, alt |-> a] : a \in 1 .. 2}
NoMove == [pos |-> [turn |-> WHITE, pushed |-> 0], alt |-> 0]

GameKinds == {"blank", "unparseable", "game"}
GameTexts ==
    {[kind |-> k, start |-> WHITE, n |-> 0] : k \in {"blank", "unparseable"}}
    \cup [kind : {"game"}, start : BOOLEAN, n : 0 .. MaxPlies]

NoLoc == [side_to_move |-> WHITE, fen_before |-> [turn |-> WHITE, pushed |-> 0],
          best_cp |-> 0, best_uci |-> NoMove, played_cp |-> 0]
NoBoard == [turn |-> WHITE, pushed |-> 0]
NoResult == [header |-> "", errors |-> <<>>]

\* board.push(move)
Push(b) == [turn |-> ~b.turn, pushed |-> b.pushed + 1]

\* the side filter of line 298
Excluded(mover_is_white, who) ==
    (mover_is_white /\ ~who[1]) \/ (~mover_is_white /\ ~who[2])

\* what the oracle's PovScore, taken for side_to_move, normalises to
Normalised(s, b, side_to_move) ==
    score_to_cp(pov([relative |-> s, turn |-> b.turn], side_to_move))

\* mutant: the side of a record taken from the parity of ply
MutErrorRecordParity(p, mover_is_white, delta, label, l, after) ==
    [ply |-> p, move_no |-> (p + 1) \div 2,
     who |-> IF p % 2 = 1 THEN "white" ELSE "black",
     cp_loss |-> delta, category |-> label,
     fen_before |-> l.fen_before, fen_after |-> after,
     best_uci |-> l.best_uci, played_uci |-> p]

ErrorRecord(p, mover_is_white, delta, label, l, after) ==
    [ply |-> p, move_no |-> (p + 1) \div 2,
     who |-> IF mover_is_white THEN "white" ELSE "black",
     cp_loss |-> delta, category |-> label,
     fen_before |-> l.fen_before, fen_after |-> after,
     best_uci |-> l.best_uci, played_uci |-> p]

\* mutant: the floor compared strictly
MutFlaggedStrict(label, delta, c) == label # None /\ delta > c.min_cp_show

\* the record is kept: label and delta >= self.min_cp_show
Flagged(label, delta, c) == label # None /\ delta >= c.min_cp_show

WalkInit ==
    /\ cfg \in Configs
    /\ engine \in {"none", "open", "dead"}
    /\ game \in GameTexts
    /\ wpc = "begin"
    /\ node = 0
    /\ ply = 0
    /\ board = NoBoard
    /\ loc = NoLoc
    /\ result = NoResult
    /\ qlog = <<>>
    /\ opens = (IF engine = "none" THEN 0 ELSE 1)
    /\ oracleFail = (engine = "dead")

WalkIdle ==
    /\ cfg = CtorConfig(50, <<TRUE, TRUE>>)
    /\ engine = "none"
    /\ game = [kind |-> "blank", start |-> WHITE, n |-> 0]
    /\ wpc = "idle"
    /\ node = 0
    /\ ply = 0
    /\ board = NoBoard
    /\ loc = NoLoc
    /\ result = NoResult
    /\ qlog = <<>>
    /\ opens = 0
    /\ oracleFail = FALSE

\* the oracle's answers in one analyze_pgn call, and the fewer ones drawn
\* when a whole run is followed
OracleScores == IF rpc = "idle" THEN WalkScores ELSE RunScores
OracleMoves(b) == IF rpc = "idle" THEN BestMoves(b) ELSE {[pos |-> b, alt |-> 1]}

\* an oracle query on position b at the current ply
Query(kind, b) == [q |-> kind, pos |-> b, ply |-> ply]

\* mutant: the played move is evaluated on the position after it
MutPlayedQueryAfterPush(b) == Push(b)

\* line 311: the board the played move is evaluated on
PlayedQueryBoard(b) == b

\* mutant: a filtered ply is not replayed
MutSkipNoPush(b) == b

\* line 299: the board after a filtered ply
SkipBoard(b) == Push(b)

\* mutant: a connection is opened at every call
MutAlwaysOpen(e) == TRUE

\* line 148: self.engine is None
NeedsOpen(e) == e = "none"

\* lines 265-269: an empty text, or one read_game makes nothing of
WalkPlaceholder ==
    /\ wpc = "begin"
    /\ game.kind # "game"
    /\ wpc' = "returned"
    /\ result' = [header |-> "placeholder", errors |-> <<>>]
    /\ UNCHANGED <<cfg, engine, game, node, ply, board, loc, qlog, opens, oracleFail>>
    /\ UNCHANGED pureVars
    /\ UNCHANGED fetchVars
    /\ UNCHANGED runVars
    /\ UNCHANGED trainVars

\* lines 271-289: the headers, the board, self._engine() (lines 147-151)
WalkBegin ==
    /\ wpc = "begin"
    /\ game.kind = "game"
    /\ result' = [header |-> "parsed", errors |-> <<>>]
    /\ board' = [turn |-> game.start, pushed |-> 0]
    /\ node' = 0
    /\ ply' = 0
    /\ \/ /\ ~NeedsOpen(engine)
          /\ wpc' = "loop"
          /\ UNCHANGED <<engine, opens, oracleFail>>
       \/ /\ NeedsOpen(engine)
          /\ engine' = "open"
          /\ opens' = opens + 1
          /\ wpc' = "loop"
          /\ UNCHANGED oracleFail
       \/ /\ NeedsOpen(engine)        \* popen_uci raises
          /\ oracleFail' = TRUE
          /\ wpc' = "raised"
          /\ UNCHANGED <<engine, opens>>
       \/ /\ NeedsOpen(engine)        \* configure raises, self.engine is set
          /\ engine' = "open"
          /\ opens' = opens + 1
          /\ oracleFail' = TRUE
          /\ wpc' = "raised"
    /\ UNCHANGED <<cfg, game, loc, qlog>>
    /\ UNCHANGED pureVars
    /\ UNCHANGED fetchVars
    /\ UNCHANGED runVars
    /\ UNCHANGED trainVars

\* lines 291-301: the next move of the main line, the side filter
WalkAdvance ==
    /\ wpc = "loop"
    /\ node < game.n
    /\ node' = node + 1
    /\ ply' = ply + 1
    /\ IF Excluded(board.turn, cfg.who)
       THEN /\ board' = SkipBoard(board)
            /\ loc' = [loc EXCEPT !.side_to_move = board.turn]
            /\ wpc' = "loop"
       ELSE /\ board' = board
            /\ loc' = [loc EXCEPT !.side_to_move = board.turn,
                                  !.fen_before = board]
            /\ wpc' = "best"
    /\ UNCHANGED <<cfg, engine, game, result, qlog, opens, oracleFail>>
    /\ UNCHANGED pureVars
    /\ UNCHANGED fetchVars
    /\ UNCHANGED runVars
    /\ UNCHANGED trainVars

\* lines 303-305: the best evaluation
AnalyseBest ==
    /\ wpc = "best"
    /\ engine = "open"
    /\ qlog' = Append(qlog, Query("analyse_best", board))
    /\ \E s \in OracleScores :
          loc' = [loc EXCEPT !.best_cp = Normalised(s, board, loc.side_to_move)]
    /\ wpc' = "play"
    /\ UNCHANGED <<cfg, engine, game, node, ply, board, result, opens, oracleFail>>
    /\ UNCHANGED pureVars
    /\ UNCHANGED fetchVars
    /\ UNCHANGED runVars
    /\ UNCHANGED trainVars

\* lines 306-308: the best move
PlayBest ==
    /\ wpc = "play"
    /\ engine = "open"
    /\ qlog' = Append(qlog, Query("play", board))
    /\ \E m \in OracleMoves(board) : loc' = [loc EXCEPT !.best_uci = m]
    /\ wpc' = "played"
    /\ UNCHANGED <<cfg, engine, game, node, ply, board, result, opens, oracleFail>>
    /\ UNCHANGED pureVars
    /\ UNCHANGED fetchVars
    /\ UNCHANGED runVars
    /\ UNCHANGED trainVars

\* lines 310-312: the evaluation of the move played
AnalysePlayed ==
    /\ wpc = "played"
    /\ engine = "open"
    /\ qlog' = Append(qlog, Query("analyse_played", PlayedQueryBoard(board)))
    /\ \E s \in OracleScores :
          loc' = [loc EXCEPT !.played_cp =
                     Normalised(s, PlayedQueryBoard(board), loc.side_to_move)]
    /\ wpc' = "judge"
    /\ UNCHANGED <<cfg, engine, game, node, ply, board, result, opens, oracleFail>>
    /\ UNCHANGED pureVars
    /\ UNCHANGED fetchVars
    /\ UNCHANGED runVars
    /\ UNCHANGED trainVars

\* mutant: the new record is put first
MutAddRecordFront(errs, r) == <<r>> \o errs

\* line 325: result["errors"].append(...)
AddRecord(errs, r) == Append(errs, r)

\* lines 314-331: delta, classify, push, and the record if it is flagged
Judge ==
    /\ wpc = "judge"
    /\ LET delta == loc.best_cp - loc.played_cp
           label == classify(delta, cfg.thresholds)
       IN /\ board' = Push(board)
          /\ result' =
               IF Flagged(label, delta, cfg)
               THEN [result EXCEPT !.errors =
                        AddRecord(@, ErrorRecord(ply, loc.side_to_move, delta, label,
                                                 loc, Push(board)))]
               ELSE result
    /\ wpc' = "loop"
    /\ UNCHANGED <<cfg, engine, game, node, ply, loc, qlog, opens, oracleFail>>
    /\ UNCHANGED pureVars
    /\ UNCHANGED fetchVars
    /\ UNCHANGED runVars
    /\ UNCHANGED trainVars

\* an oracle query raises and the exception leaves analyze_pgn: the oracle
\* answers with an error, or its process has died (and stays dead)
OracleRaises ==
    /\ wpc \in {"best", "play", "played"}
    /\ qlog' = Append(qlog, Query(CASE wpc = "best" -> "analyse_best"
                                    [] wpc = "play" -> "play"
                                    [] OTHER -> "analyse_played", board))
    /\ \/ /\ engine = "open"
          /\ UNCHANGED <<engine, oracleFail>>
       \/ /\ engine' = "dead"
          /\ oracleFail' = TRUE
    /\ wpc' = "raised"
    /\ UNCHANGED <<cfg, game, node, ply, board, loc, result, opens>>
    /\ UNCHANGED pureVars
    /\ UNCHANGED fetchVars
    /\ UNCHANGED runVars
    /\ UNCHANGED trainVars

\* line 332: the move list is exhausted
WalkReturn ==
    /\ wpc = "loop"
    /\ node = game.n
    /\ wpc' = "returned"
    /\ UNCHANGED <<cfg, engine, game, node, ply, board, loc, result, qlog, opens,
                   oracleFail>>
    /\ UNCHANGED pureVars
    /\ UNCHANGED fetchVars
    /\ UNCHANGED runVars
    /\ UNCHANGED trainVars

WalkNext ==
    \/ WalkPlaceholder
    \/ WalkBegin
    \/ WalkAdvance
    \/ AnalyseBest
    \/ PlayBest
    \/ AnalysePlayed
    \/ Judge
    \/ OracleRaises
    \/ WalkReturn

(***************************************************************************)
(* Analyzer.fetch_pgns                                                     *)
(***************************************************************************)
Games == {"g1", "g2"}

\* A text of the source: the games it holds, in order (none: a blank text).
Texts == UNION {[1 .. n -> Games] : n \in 0 .. MaxBulk}

\* What export_by_player delivers: a sequence of items, repeats included.
ItemLists == UNION {[1 .. n -> Texts] : n \in 0 .. MaxItems}

\* split_pgn_bulk: the games of a text, [] for a blank one
split_pgn_bulk(text) == text

\* _download_via_berserk, lines 171-185: a blank item is skipped, an item of
\* several games is split, any other is appended
RECURSIVE CollectItems(_)
CollectItems(items) ==
    IF items = <<>> THEN <<>>
    ELSE LET pgn == Head(items)
             rest == CollectItems(Tail(items))
         IN IF Len(pgn) = 0 THEN rest
            ELSE IF Len(pgn) >= 2 THEN split_pgn_bulk(pgn) \o rest
            ELSE <<pgn[1]>> \o rest

\* what get_public_data can give: an exception, a falsy value, a dict with
\* neither "id" nor "username", or a dict with one or both of them
LookupOutcomes == {"exception", "falsy", "no_identity", "id", "username", "id_username"}

\* mutant: any answer that is not an exception passes
MutUserAnyAnswer(info) == info # "exception"

\* _assert_user_exists, lines 141-143: passes without raising
UserVerified(info) == info \in {"id", "username", "id_username"}

ErrVerify == "Failed to verify user"
ErrNoGames == "No games fetched. Reasons: wrong username, filters, or no public games."

\* mutant: the unfiltered parameters put first
MutAttemptsUnfilteredFirst(pf) == IF pf THEN <<FALSE, TRUE>> ELSE <<FALSE>>

\* lines 228-232: the parameter sets, TRUE for the one that carries perf_type
Attempts(pf) == IF pf THEN <<TRUE, FALSE>> ELSE <<FALSE>>

Entry(via, filtered, outcome, got) ==
    [via |-> via, filtered |-> filtered, outcome |-> outcome, got |-> got]

Outcome(pgns) == IF pgns = <<>> THEN "empty" ELSE "games"

FetchInit ==
    /\ perf \in BOOLEAN
    /\ fpc = "verify"
    /\ userInfo = "unknown"
    /\ idx = 1
    /\ all_pgns = <<>>
    /\ attemptLog = <<>>
    /\ exc = ""

FetchIdle ==
    /\ perf = FALSE
    /\ fpc = "idle"
    /\ userInfo = "unknown"
    /\ idx = 1
    /\ all_pgns = <<>>
    /\ attemptLog = <<>>
    /\ exc = ""

\* line 213, lines 137-145
AssertUserExists ==
    /\ fpc = "verify"
    /\ \E info \in LookupOutcomes :
          /\ userInfo' = info
          /\ IF UserVerified(info)
             THEN fpc' = "berserk" /\ exc' = exc
             ELSE fpc' = "raised" /\ exc' = ErrVerify
    /\ idx' = 1
    /\ UNCHANGED <<perf, all_pgns, attemptLog>>
    /\ UNCHANGED pureVars
    /\ UNCHANGED walkVars
    /\ UNCHANGED runVars
    /\ UNCHANGED trainVars

\* lines 235-244: one round of the berserk loop, and line 246 when it ends
BerserkAttempt ==
    /\ fpc = "berserk"
    /\ idx <= Len(Attempts(perf))
    /\ LET filtered == Attempts(perf)[idx]
           last == idx = Len(Attempts(perf))
       IN \/ \E items \in ItemLists :
                LET pgns == CollectItems(items)
                IN /\ all_pgns' = pgns
                   /\ attemptLog' = Append(attemptLog,
                          Entry("berserk", filtered, Outcome(pgns), pgns))
                   /\ IF pgns # <<>> THEN fpc' = "check" /\ idx' = idx
                      ELSE IF last THEN fpc' = "http" /\ idx' = 1
                      ELSE fpc' = "berserk" /\ idx' = idx + 1
          \/ /\ all_pgns' = all_pgns
             /\ attemptLog' = Append(attemptLog,
                    Entry("berserk", filtered, "exception", <<>>))
             /\ IF last
                THEN fpc' = (IF all_pgns = <<>> THEN "http" ELSE "check") /\ idx' = 1
                ELSE fpc' = "berserk" /\ idx' = idx + 1
    /\ UNCHANGED <<perf, userInfo, exc>>
    /\ UNCHANGED pureVars
    /\ UNCHANGED walkVars
    /\ UNCHANGED runVars
    /\ UNCHANGED trainVars

\* lines 247-255: one round of the HTTP loop; an exception leaves the loop
HttpAttempt ==
    /\ fpc = "http"
    /\ idx <= Len(Attempts(perf))
    /\ LET filtered == Attempts(perf)[idx]
           last == idx = Len(Attempts(perf))
       IN \/ \E raw \in Texts :
                LET pgns == split_pgn_bulk(raw)
                IN /\ attemptLog' = Append(attemptLog,
                          Entry("http", filtered, Outcome(pgns), pgns))
                   /\ IF pgns # <<>>
                      THEN all_pgns' = pgns /\ fpc' = "check" /\ idx' = idx
                      ELSE /\ all_pgns' = all_pgns
                           /\ IF last THEN fpc' = "check" /\ idx' = idx
                              ELSE fpc' = "http" /\ idx' = idx + 1
          \/ /\ attemptLog' = Append(attemptLog,
                    Entry("http", filtered, "exception", <<>>))
             /\ all_pgns' = all_pgns
             /\ fpc' = "check"
             /\ idx' = idx
    /\ UNCHANGED <<perf, userInfo, exc>>
    /\ UNCHANGED pureVars
    /\ UNCHANGED walkVars
    /\ UNCHANGED runVars
    /\ UNCHANGED trainVars

\* lines 257-262
FetchFinish ==
    /\ fpc = "check"
    /\ IF all_pgns = <<>>
       THEN fpc' = "raised" /\ exc' = ErrNoGames
       ELSE fpc' = "returned" /\ exc' = exc
    /\ UNCHANGED <<perf, userInfo, idx, all_pgns, attemptLog>>
    /\ UNCHANGED pureVars
    /\ UNCHANGED walkVars
    /\ UNCHANGED runVars
    /\ UNCHANGED trainVars

FetchNext ==
    \/ AssertUserExists
    \/ BerserkAttempt
    \/ HttpAttempt
    \/ FetchFinish

(***************************************************************************)
(* main: fetch, the loop over the games, render_gallery, close             *)
(***************************************************************************)
\* The texts fetch_pgns hands over are stripped and not empty: one that
\* read_game makes nothing of, or a game of 0 .. RunPlies moves.
RunGameTexts ==
    {[kind |-> "unparseable", start |-> WHITE, n |-> 0]}
    \cup [kind : {"game"}, start : {WHITE}, n : 0 .. RunPlies]
RunPgnLists == UNION {[1 .. k -> RunGameTexts] : k \in 1 .. MaxGames}
RunConfigs == {MainConfig(50, 150, 300, w) : w \in {<<TRUE, TRUE>>, <<TRUE, FALSE>>}}

\* mutant: the records of a game that failed are kept
MutKeepPartial(an, res) == Append(an, res)

\* line 591: what is left of analyzed when analyze_pgn raised
AfterFailure(an, res) == an

\* line 342: total_games
TotalGames(an) == Len(an)

RunInit ==
    /\ cfg \in RunConfigs
    /\ engine = "none"
    /\ game = [kind |-> "blank", start |-> WHITE, n |-> 0]
    /\ wpc = "idle"
    /\ node = 0
    /\ ply = 0
    /\ board = NoBoard
    /\ loc = NoLoc
    /\ result = NoResult
    /\ qlog = <<>>
    /\ opens = 0
    /\ oracleFail = FALSE
    /\ rpc = "fetch"
    /\ mpgns = <<>>
    /\ gi = 0
    /\ analyzed = <<>>
    /\ outcomes = <<>>
    /\ rendered = <<>>
    /\ quits = 0
    /\ status = ""

RunIdle ==
    /\ rpc = "idle"
    /\ mpgns = <<>>
    /\ gi = 0
    /\ analyzed = <<>>
    /\ outcomes = <<>>
    /\ rendered = <<>>
    /\ quits = 0
    /\ status = ""

\* line 586: fetch_pgns returns a list that is not empty, or raises
RunFetch ==
    /\ rpc = "fetch"
    /\ \/ /\ \E l \in RunPgnLists : mpgns' = l
          /\ gi' = 1
          /\ rpc' = "loop"
          /\ UNCHANGED status
       \/ /\ rpc' = "closing"
          /\ status' = "error"
          /\ UNCHANGED <<mpgns, gi>>
    /\ UNCHANGED <<analyzed, outcomes, rendered, quits>>
    /\ UNCHANGED pureVars
    /\ UNCHANGED walkVars
    /\ UNCHANGED fetchVars
    /\ UNCHANGED trainVars

\* lines 588-590: the next text is given to analyze_pgn
RunAnalyze ==
    /\ rpc = "loop"
    /\ wpc = "idle"
    /\ gi <= Len(mpgns)
    /\ game' = mpgns[gi]
    /\ wpc' = "begin"
    /\ UNCHANGED <<cfg, engine, node, ply, board, loc, result, qlog, opens, oracleFail>>
    /\ UNCHANGED pureVars
    /\ UNCHANGED fetchVars
    /\ UNCHANGED runVars
    /\ UNCHANGED trainVars

\* line 590: analyzed.append(...) of what analyze_pgn returned
RunAppend ==
    /\ rpc = "loop"
    /\ wpc = "returned"
    /\ analyzed' = Append(analyzed, result)
    /\ outcomes' = Append(outcomes, [out |-> "returned", flagged |-> Len(result.errors),
                                     replayed |-> board.pushed])
    /\ gi' = gi + 1
    /\ wpc' = "idle"
    /\ node' = 0
    /\ ply' = 0
    /\ board' = NoBoard
    /\ loc' = NoLoc
    /\ result' = NoResult
    /\ qlog' = <<>>
    /\ UNCHANGED <<cfg, engine, game, opens, oracleFail>>
    /\ UNCHANGED <<rpc, mpgns, rendered, quits, status>>
    /\ UNCHANGED pureVars
    /\ UNCHANGED fetchVars
    /\ UNCHANGED trainVars

\* line 591: except Exception, the game is skipped
RunSkip ==
    /\ rpc = "loop"
    /\ wpc = "raised"
    /\ analyzed' = AfterFailure(analyzed, result)
    /\ outcomes' = Append(outcomes, [out |-> "raised", flagged |-> Len(result.errors),
                                     replayed |-> board.pushed])
    /\ gi' = gi + 1
    /\ wpc' = "idle"
    /\ node' = 0
    /\ ply' = 0
    /\ board' = NoBoard
    /\ loc' = NoLoc
    /\ result' = NoResult
    /\ qlog' = <<>>
    /\ UNCHANGED <<cfg, engine, game, opens, oracleFail>>
    /\ UNCHANGED <<rpc, mpgns, rendered, quits, status>>
    /\ UNCHANGED pureVars
    /\ UNCHANGED fetchVars
    /\ UNCHANGED trainVars

\* line 592: render_gallery(analyzed) writes the page, or raises
RunRender ==
    /\ rpc = "loop"
    /\ wpc = "idle"
    /\ gi > Len(mpgns)
    /\ \/ /\ rendered' = <<TotalGames(analyzed)>>
          /\ status' = "ok"
       \/ /\ status' = "error"
          /\ UNCHANGED rendered
    /\ rpc' = "closing"
    /\ UNCHANGED <<mpgns, gi, analyzed, outcomes, quits>>
    /\ UNCHANGED pureVars
    /\ UNCHANGED walkVars
    /\ UNCHANGED fetchVars
    /\ UNCHANGED trainVars

\* mutant: close() never quits
MutNeverQuit(e) == FALSE

\* line 155: if self.engine
ShouldQuit(e) == e # "none"

\* lines 593-594 and 153-158: finally, close(): quit() if self.engine is set
RunClose ==
    /\ rpc = "closing"
    /\ quits' = (IF ShouldQuit(engine) THEN quits + 1 ELSE quits)
    /\ rpc' = "done"
    /\ UNCHANGED <<mpgns, gi, analyzed, outcomes, rendered, status>>
    /\ UNCHANGED pureVars
    /\ UNCHANGED walkVars
    /\ UNCHANGED fetchVars
    /\ UNCHANGED trainVars

RunNext ==
    \/ RunFetch
    \/ RunAnalyze
    \/ WalkNext
    \/ RunAppend
    \/ RunSkip
    \/ RunRender
    \/ RunClose

(***************************************************************************)
(* initTrainer: one card of the generated page                             *)
(*                                                                         *)
(* The chess.js game of a card is the sequence of moves made on top of the *)
(* card's pre-move position, each in coordinate form [sq, promo]: sq tells *)
(* whether the move goes between the squares of the best move ("best") or  *)
(* not ("other"), promo is the promotion piece.  The side to move          *)
(* alternates with each move of the sequence.                              *)
(***************************************************************************)
\* data-best is best_move_obj.uci(): the squares of the best move and, when
\* it promotes, the piece: a queen or another one
Cards == [side : BOOLEAN, promo : {"", "q", "n"}]
BestUci(c) == [sq |-> "best", promo |-> c.promo]

\* Whether a move between the squares of the best move can be legal after
\* the moves h.  In the pre-move position it is.  After one move the
\* opponent is to move and the origin holds no piece of theirs.  After a move
\* from the origin and one reply the origin holds no piece of the card's
\* side.  Deeper, a piece may have come to stand on the origin.
BestSquaresLegal(h) ==
    \/ Len(h) = 0
    \/ Len(h) = 2 /\ h[1].sq # "best"
    \/ Len(h) >= 3

\* The legal gestures (from, to) after the moves h: some move other than
\* between the best move's squares, and possibly one between them, which
\* promotes when the best move does and the card's side is to move.
Gestures(h, c) ==
    IF Len(h) >= MaxDepth THEN {}
    ELSE {[sq |-> "other", promotes |-> FALSE]} \cup
         (IF BestSquaresLegal(h)
          THEN {[sq |-> "best", promotes |-> (c.promo # "" /\ Len(h) % 2 = 0)]}
          ELSE {})

\* a proposal game.move answers null to
Illegal == [sq |-> "none", promotes |-> FALSE]

\* lines 515, 517 and 536, 538: game.move({from, to, promotion:'q'}) and the
\* coordinate form source + target + (move.promotion or '')
HandlerUci(g) == [sq |-> g.sq, promo |-> IF g.promotes THEN "q" ELSE ""]

\* mutant: the reversion leaves the game as it is
MutUndoNothing(h) == h

\* game.undo(): takes back the last move, if there is one
Undo(h) == IF h = <<>> THEN h ELSE SubSeq(h, 1, Len(h) - 1)

\* the last MaxLog handler outcomes
Logged(l, e) ==
    IF Len(l) < MaxLog THEN Append(l, e) ELSE Append(Tail(l), e)

TrainInit ==
    /\ card \in Cards
    /\ tgame = <<>>
    /\ tshown = <<>>
    /\ tsel = FALSE
    /\ tpending = 0
    /\ tsuccess = FALSE
    /\ tmsg = ""
    /\ tlog = <<>>

TrainIdle ==
    /\ card = [side |-> WHITE, promo |-> ""]
    /\ tgame = <<>>
    /\ tshown = <<>>
    /\ tsel = FALSE
    /\ tpending = 0
    /\ tsuccess = FALSE
    /\ tmsg = ""
    /\ tlog = <<>>

\* lines 515-523 and 536-540: game.move, the comparison with best, the message,
\* the success control or the delayed reversion
Attempt(g) ==
    IF g = Illegal
    THEN /\ tlog' = Logged(tlog, [ev |-> "illegal", depth |-> Len(tgame)])
         /\ UNCHANGED <<tgame, tpending, tsuccess, tmsg>>
    ELSE /\ tgame' = Append(tgame, HandlerUci(g))
         /\ IF HandlerUci(g) = BestUci(card)
            THEN /\ tmsg' = "ok"
                 /\ tsuccess' = TRUE
                 /\ tlog' = Logged(tlog, [ev |-> "success", depth |-> Len(tgame)])
                 /\ UNCHANGED tpending
            ELSE /\ tmsg' = "bad"
                 /\ tpending' = tpending + 1
                 /\ tlog' = Logged(tlog, [ev |-> "wrong", depth |-> Len(tgame)])
                 /\ UNCHANGED tsuccess

\* What the board shows of a dropped piece: the piece on the square it was
\* dropped on, a pawn still a pawn.  onDrop never calls board.position.
Dropped(g) == [sq |-> g.sq, promo |-> ""]

\* lines 514-524: onDrop; the board keeps the piece where it was dropped
\* unless the handler answers 'snapback'
Drop ==
    /\ \E g \in {Illegal} \cup Gestures(tgame, card) :
          /\ Attempt(g)
          /\ tshown' = (IF g = Illegal THEN tshown ELSE Append(tshown, Dropped(g)))
    /\ UNCHANGED <<card, tsel>>
    /\ UNCHANGED pureVars
    /\ UNCHANGED walkVars
    /\ UNCHANGED fetchVars
    /\ UNCHANGED runVars

\* line 535: the first click selects a square
ClickSelect ==
    /\ ~tsel
    /\ tsel' = TRUE
    /\ UNCHANGED <<card, tgame, tshown, tpending, tsuccess, tmsg, tlog>>
    /\ UNCHANGED pureVars
    /\ UNCHANGED walkVars
    /\ UNCHANGED fetchVars
    /\ UNCHANGED runVars

\* lines 536-541: the second click moves from the selected square
ClickMove ==
    /\ tsel
    /\ tsel' = FALSE
    /\ \E g \in {Illegal} \cup Gestures(tgame, card) :
          /\ Attempt(g)
          /\ tshown' = (IF g = Illegal THEN tshown ELSE tgame')
    /\ UNCHANGED card
    /\ UNCHANGED pureVars
    /\ UNCHANGED walkVars
    /\ UNCHANGED fetchVars
    /\ UNCHANGED runVars

\* lines 522 and 540: a reversion set 200 ms earlier runs
TimerFire ==
    /\ tpending > 0
    /\ tpending' = tpending - 1
    /\ tgame' = Undo(tgame)
    /\ tshown' = Undo(tgame)
    /\ tlog' = Logged(tlog, [ev |-> "undo", depth |-> Len(tgame)])
    /\ UNCHANGED <<card, tsel, tsuccess, tmsg>>
    /\ UNCHANGED pureVars
    /\ UNCHANGED walkVars
    /\ UNCHANGED fetchVars
    /\ UNCHANGED runVars

TrainNext ==
    \/ Drop
    \/ ClickSelect
    \/ ClickMove
    \/ TimerFire

vars == <<clsArgs, clsRes, scArg, scRes, cfg, engine, game, wpc, node, ply,
          board, loc, result, qlog, opens, oracleFail, perf, fpc, userInfo, idx,
          all_pgns, attemptLog, exc, rpc, mpgns, gi, analyzed, outcomes, rendered,
          quits, status, card, tgame, tshown, tsel, tpending, tsuccess, tmsg, tlog>>

InitClassify ==
    ClassifyInit /\ ScoreIdle /\ WalkIdle /\ FetchIdle /\ RunIdle /\ TrainIdle
InitScore ==
    ClassifyIdle /\ ScoreInit /\ WalkIdle /\ FetchIdle /\ RunIdle /\ TrainIdle
InitWalk ==
    ClassifyIdle /\ ScoreIdle /\ WalkInit /\ FetchIdle /\ RunIdle /\ TrainIdle
InitFetch ==
    ClassifyIdle /\ ScoreIdle /\ WalkIdle /\ FetchInit /\ RunIdle /\ TrainIdle
InitRun ==
    ClassifyIdle /\ ScoreIdle /\ RunInit /\ FetchIdle /\ TrainIdle
InitTrainer ==
    ClassifyIdle /\ ScoreIdle /\ WalkIdle /\ FetchIdle /\ RunIdle /\ TrainInit

SpecClassify == InitClassify /\ [][ClassifyCall]_vars
SpecScore == InitScore /\ [][ScoreCall]_vars
SpecWalk == InitWalk /\ [][WalkNext]_vars
SpecFetch == InitFetch /\ [][FetchNext]_vars
SpecRun == InitRun /\ [][RunNext]_vars
SpecTrainer == InitTrainer /\ [][TrainNext]_vars

\* The program under the proviso that every request and every query comes
\* back: the retrieval in detail, or the run on what the retrieval gave, with
\* every step that can be taken eventually taken (the program is one
\* synchronous thread).  The run is followed with the filter that analyses one
\* side and skips the other, so that both branches of the loop are taken.
InitProgram == InitFetch \/ (InitRun /\ cfg.who = <<TRUE, FALSE>>)
ProgramNext == FetchNext \/ RunNext
SpecProgram == InitProgram /\ [][ProgramNext]_vars /\ WF_vars(ProgramNext)

(***************************************************************************)
(* Claims on classify (SpecClassify)                                       *)
(***************************************************************************)
Rank(t) ==
    CASE t = "blunder" -> 3
      [] t = "mistake" -> 2
      [] t = "inaccuracy" -> 1
      [] OTHER -> 0

ValidThresholds(th) == th.inaccuracy <= th.mistake /\ th.mistake <= th.blunder

\* C1: with inaccuracy <= mistake <= blunder and 0 <= x <= y, the tier of
\* classify(y) ranks at least as high as the tier of classify(x), and
\* classify(x) is none when x is below the inaccuracy cutoff.
C1_ClassifyMonotonic ==
    (ValidThresholds(clsArgs.th) /\ 0 <= clsArgs.x /\ clsArgs.x <= clsArgs.y) =>
        /\ Len(clsRes) = 2 => Rank(clsRes[2]) >= Rank(clsRes[1])
        /\ (Len(clsRes) >= 1 /\ clsArgs.x < clsArgs.th.inaccuracy) =>
               clsRes[1] = None

C1_Witness ==
    /\ ValidThresholds(clsArgs.th)
    /\ 0 <= clsArgs.x
    /\ clsArgs.x < clsArgs.th.inaccuracy
    /\ clsArgs.th.mistake < clsArgs.th.blunder
    /\ clsArgs.y >= clsArgs.th.blunder
    /\ clsRes = <<None, "blunder">>

\* C2: for any three cutoffs, ordered or not, classify returns the first of
\* blunder, mistake, inaccuracy whose cutoff the delta meets or exceeds, none
\* exactly when the delta is below all three, and always returns one of the four.
C2_ClassifyFirstMatch ==
    \A i \in 1 .. Len(clsRes) :
        LET d == IF i = 1 THEN clsArgs.x ELSE clsArgs.y
            th == clsArgs.th
            r == clsRes[i]
        IN /\ r \in {"blunder", "mistake", "inaccuracy", None}
           /\ (r = "blunder") <=> (d >= th.blunder)
           /\ (r = "mistake") <=> (d < th.blunder /\ d >= th.mistake)
           /\ (r = "inaccuracy") <=>
                  (d < th.blunder /\ d < th.mistake /\ d >= th.inaccuracy)
           /\ (r = None) <=>
                  (d < th.blunder /\ d < th.mistake /\ d < th.inaccuracy)

C2_Witness ==
    /\ clsArgs.th.blunder < clsArgs.th.mistake
    /\ clsArgs.th.mistake < clsArgs.th.inaccuracy
    /\ clsArgs.x >= clsArgs.th.blunder
    /\ clsArgs.x < clsArgs.th.mistake
    /\ clsArgs.y < clsArgs.th.blunder
    /\ clsRes = <<"blunder", None>>

(***************************************************************************)
(* Claims on score_to_cp (SpecScore)                                       *)
(***************************************************************************)
\* the side that mates, for a mate score relative to p.turn: Mate(k), k > 0,
\* and MateGiven are wins of p.turn; Mate(k), k <= 0, are losses of p.turn
MatingSide(p) ==
    IF p.relative.kind = "mate_given" \/ (p.relative.kind = "mate" /\ p.relative.v > 0)
    THEN p.turn
    ELSE ~p.turn

\* C5: a forced mate normalises to +100000 when the side asked for is the
\* mating side and to -100000 when it is the side being mated, for every mate
\* distance, 0 included; a finite evaluation keeps its signed value.
C5_MateSentinel ==
    scRes # <<>> =>
        LET p == scArg.pov
        IN IF is_mate(p.relative)
           THEN scRes[1] = (IF MatingSide(p) = scArg.color THEN MATE ELSE 0 - MATE)
           ELSE scRes[1] = (IF p.turn = scArg.color THEN p.relative.v
                            ELSE 0 - p.relative.v)

(***************************************************************************)
(* Claims on analyze_pgn (SpecWalk)                                        *)
(***************************************************************************)
RecordsAt(p) == {i \in 1 .. Len(result.errors) : result.errors[i].ply = p}

\* the current ply has been judged: its two scores are in loc
PlyJudged ==
    /\ wpc \in {"loop", "returned"}
    /\ result.header = "parsed"
    /\ ply >= 1
    /\ ~Excluded(loc.side_to_move, cfg.who)

\* C3: every ErrorRecord has cp_loss = best_score - played_score >= 0.
C3_CpLossNonNegative ==
    /\ \A i \in 1 .. Len(result.errors) : result.errors[i].cp_loss >= 0
    /\ PlyJudged =>
          \A i \in RecordsAt(ply) :
              result.errors[i].cp_loss = loc.best_cp - loc.played_cp

\* C4: a ply that passes the side filter has exactly one record if and only
\* if classify(cp_loss) is a tier and cp_loss >= the floor, and the record
\* carries that tier; with cutoffs 50/150/300, best 120 and played -40 the
\* record has cp_loss 160 and tier mistake and exists exactly when the floor
\* is <= 160.
C4_RecordIffFlagged ==
    /\ \A p \in 1 .. MaxPlies + 1 : Cardinality(RecordsAt(p)) <= 1
    /\ PlyJudged =>
          LET delta == loc.best_cp - loc.played_cp
              tier == Rank(classify(delta, cfg.thresholds))
              n == Cardinality(RecordsAt(ply))
          IN /\ (n = 1) <=> (tier > 0 /\ delta >= cfg.min_cp_show)
             /\ \A i \in RecordsAt(ply) :
                   /\ Rank(result.errors[i].category) = tier
                   /\ result.errors[i].cp_loss = delta
             /\ (cfg.thresholds = DefaultThresholds
                 /\ loc.best_cp = 120 /\ loc.played_cp = -40) =>
                   /\ (n = 1) <=> (cfg.min_cp_show <= 160)
                   /\ \A i \in RecordsAt(ply) :
                         /\ result.errors[i].cp_loss = 160
                         /\ result.errors[i].category = "mistake"

C4_Witness ==
    /\ PlyJudged
    /\ cfg.thresholds = DefaultThresholds
    /\ cfg.min_cp_show = 160
    /\ loc.best_cp = 120
    /\ loc.played_cp = -40
    /\ \E i \in RecordsAt(ply) :
          result.errors[i].cp_loss = 160 /\ result.errors[i].category = "mistake"

(***************************************************************************)
(* Claims on fetch_pgns (SpecFetch)                                        *)
(***************************************************************************)
\* the attempt list of the claims: API with filter, API without, raw HTTP
\* with filter, raw HTTP without; the filtered ones only with a speed filter
FixedOrder ==
    IF perf
    THEN << <<"berserk", TRUE>>, <<"berserk", FALSE>>, <<"http", TRUE>>, <<"http", FALSE>> >>
    ELSE << <<"berserk", FALSE>>, <<"http", FALSE>> >>

Issued(i) == <<attemptLog[i].via, attemptLog[i].filtered>>

\* C6: the attempts are issued in the fixed order; an attempt that yields a
\* game text is the last one issued and its result is the list returned; when
\* the filtered API attempt yields nothing, the unfiltered API attempt is
\* made before a failure is declared.
C6_AttemptOrder ==
    /\ Len(attemptLog) <= Len(FixedOrder)
    /\ \A i \in 1 .. Len(attemptLog) :
          /\ Issued(i) = FixedOrder[i]
          /\ attemptLog[i].outcome = "games" => i = Len(attemptLog)
    /\ fpc = "returned" =>
          /\ attemptLog # <<>>
          /\ attemptLog[Len(attemptLog)].outcome = "games"
          /\ all_pgns = attemptLog[Len(attemptLog)].got
          /\ all_pgns # <<>>
    /\ (fpc = "raised" /\ exc = ErrNoGames /\ perf
        /\ attemptLog[1].outcome = "empty") =>
          /\ Len(attemptLog) >= 2
          /\ Issued(2) = <<"berserk", FALSE>>

C6_Witness ==
    /\ perf
    /\ fpc = "returned"
    /\ Len(attemptLog) = 4
    /\ attemptLog[1].outcome = "empty"
    /\ attemptLog[2].outcome = "empty"
    /\ attemptLog[3].outcome = "empty"
    /\ Issued(4) = <<"http", FALSE>>
    /\ all_pgns = attemptLog[4].got

\* C7: the no-games error is raised only after every pair of the attempt
\* list has been attempted and none yielded a game text, also when attempts
\* end with a transport exception.
C7_ExhaustionAfterAllAttempts ==
    (fpc = "raised" /\ exc = ErrNoGames) =>
        /\ \A k \in 1 .. Len(FixedOrder) :
              \E i \in 1 .. Len(attemptLog) : Issued(i) = FixedOrder[k]
        /\ \A i \in 1 .. Len(attemptLog) : attemptLog[i].outcome # "games"

TransportFailed == \E i \in 1 .. Len(attemptLog) : attemptLog[i].outcome = "exception"

\* C8: when retrieval is exhausted, the error reported tells the case where
\* every attempt returned zero games from the case where attempts failed with
\* a transport error: the no-games message is reported only in the first.
C8_ErrorDistinguishesCause ==
    (fpc = "raised" /\ userInfo \in {"id", "username", "id_username"}) =>
        ((exc = ErrNoGames) <=> ~TransportFailed)

\* C9: the user is verified before any game query: when the lookup fails or
\* gives no identity, fetch_pgns fails with the user-verification error, which
\* is not the no-games error, and no retrieval attempt has been issued.
C9_VerifyBeforeQuery ==
    /\ ErrVerify # ErrNoGames
    /\ attemptLog # <<>> => userInfo \in {"id", "username", "id_username"}
    /\ fpc \in {"berserk", "http", "check", "returned"} =>
          userInfo \in {"id", "username", "id_username"}
    /\ userInfo \in {"exception", "falsy", "no_identity"} =>
          /\ fpc = "raised"
          /\ exc = ErrVerify
          /\ attemptLog = <<>>
          /\ all_pgns = <<>>

C9_Witness ==
    /\ userInfo = "no_identity"
    /\ fpc = "raised"
    /\ exc = ErrVerify
    /\ attemptLog = <<>>

\* C10: the list fetch_pgns returns holds no game text twice.
C10_ReturnedListDeduplicated ==
    fpc = "returned" =>
        \A i, j \in 1 .. Len(all_pgns) : all_pgns[i] = all_pgns[j] => i = j

(***************************************************************************)
(* Claims on the run (SpecRun)                                             *)
(***************************************************************************)
Handled(out) == {i \in DOMAIN outcomes : outcomes[i].out = out}

\* C11: the oracle connection is opened only once a game with a parseable
\* move list is being analysed, at most one connection is ever opened (so all
\* plies and games use the same one), every query is made on it before it is
\* released, and when the run has ended, on whatever path, the connection has
\* been released exactly once if it was opened; nothing runs after the release.
C11_OracleLifecycle ==
    /\ opens <= 1
    /\ (engine = "none") <=> (opens = 0)
    /\ opens > 0 =>
          \E i \in DOMAIN mpgns : i <= gi /\ mpgns[i].kind = "game"
    /\ qlog # <<>> => opens = 1 /\ quits = 0
    /\ quits = (IF rpc = "done" THEN opens ELSE 0)
    /\ rpc \in {"closing", "done"} => wpc = "idle"
    /\ status = "error" /\ mpgns = <<>> => opens = 0

\* a run that ended after one game failed in mid-analysis and another was
\* analysed, with a record, on the same connection, released once
C11_Witness ==
    /\ rpc = "done"
    /\ opens = 1
    /\ quits = 1
    /\ Len(outcomes) = 2
    /\ outcomes[1].out = "raised"
    /\ outcomes[1].flagged = 1
    /\ outcomes[2].out = "returned"
    /\ outcomes[2].flagged > 0

C12_State ==
    /\ rpc \in {"loop", "closing", "done"} /\ mpgns # <<>> => Len(outcomes) = gi - 1
    /\ Len(analyzed) = Cardinality(Handled("returned"))
    /\ wpc = "raised" => rpc = "loop"
    /\ rpc \in {"closing", "done"} /\ mpgns # <<>> => Len(outcomes) = Len(mpgns)

C12_Step ==
    /\ Len(analyzed) <= Len(analyzed')
    /\ SubSeq(analyzed', 1, Len(analyzed)) = analyzed
    /\ wpc = "raised" /\ wpc' # "raised" =>
          /\ analyzed' = analyzed
          /\ gi' = gi + 1
          /\ rpc' = "loop"
    /\ gi' \in {gi, gi + 1}

\* C12: when analyze_pgn raises for a game, the run goes on with the next
\* game: the games are handled one by one in order, all of them before the
\* page is rendered; what was collected before stays as it was; the failed
\* game adds nothing to analyzed, not even the records it had flagged.
C12_FailedGameSkipped == [][C12_Step]_vars /\ []C12_State

\* a game that had flagged a record failed, the next one was analysed, and
\* the page was rendered with that one alone
C12_Witness ==
    /\ Len(outcomes) = 2
    /\ outcomes[1].out = "raised"
    /\ outcomes[1].flagged = 1
    /\ outcomes[2].out = "returned"
    /\ Len(analyzed) = 1
    /\ Len(analyzed[1].errors) = 2
    /\ rendered = <<1>>

\* C13: once the oracle could not be started, or has died, the run stops
\* with a failure: no further game is given to analyze_pgn, no page is
\* written and the run does not end well.
C13_OracleFailureFatal ==
    oracleFail =>
        /\ wpc \in {"raised", "idle"}
        /\ rendered = <<>>
        /\ status # "ok"

Degenerate(g) == g.kind # "game" \/ g.n = 0

\* C16: analyze_pgn does not raise on a text without moves: a game of zero
\* moves returns with no records, a text that cannot be read returns the
\* placeholder with no records, and no oracle query is made for either.
C16_DegenerateNeverFails ==
    (wpc # "idle" /\ Degenerate(game)) =>
        /\ wpc # "raised"
        /\ qlog = <<>>
        /\ wpc = "returned" =>
              /\ result.errors = <<>>
              /\ game.kind # "game" => result.header = "placeholder"

ParsedAndReturned ==
    {i \in Handled("returned") : mpgns[i].kind = "game"}

\* C17: analyzed holds one entry per game that was parsed and analysed, and
\* nothing else; the page counts that many games.
C17_OneEntryPerParsedGame ==
    /\ \A i \in DOMAIN analyzed : analyzed[i].header = "parsed"
    /\ Len(analyzed) = Cardinality(ParsedAndReturned)
    /\ rendered # <<>> => rendered[1] = Cardinality(ParsedAndReturned)

(***************************************************************************)
(* Claims on the queries, the side filter and the numbering (SpecWalk)     *)
(***************************************************************************)
\* the position reached by replaying the first k moves of the game
Replayed(k) == [turn |-> (game.start <=> (k % 2 = 0)), pushed |-> k]

QueriesAt(p) == SelectSeq(qlog, LAMBDA e : e.ply = p)
QueryKinds == <<"analyse_best", "play", "analyse_played">>

\* C18: the queries of a ply are the best evaluation, the best move and the
\* played move's evaluation, in that order, each on the position reached by
\* replaying the ply - 1 earlier moves; once the loss is to be computed all
\* three have been made and the played move is not yet applied; a record's
\* fen_before is that position and its best move is a move of that position.
C18_QueriesOnPositionBefore ==
    /\ \A i \in DOMAIN qlog :
          /\ qlog[i].pos = Replayed(qlog[i].ply - 1)
          /\ qlog[i].ply \in 1 .. ply
    /\ \A p \in 1 .. ply :
          LET qs == QueriesAt(p)
          IN /\ Len(qs) <= 3
             /\ \A i \in DOMAIN qs : qs[i].q = QueryKinds[i]
    /\ wpc = "judge" => Len(QueriesAt(ply)) = 3 /\ board = Replayed(ply - 1)
    /\ wpc \in {"best", "play", "played"} => board = Replayed(ply - 1)
    /\ wpc \notin {"idle", "begin"} =>
          \A i \in DOMAIN result.errors :
             LET r == result.errors[i]
             IN /\ r.fen_before = Replayed(r.ply - 1)
                /\ r.fen_after = Replayed(r.ply)
                /\ r.best_uci.pos = r.fen_before
                /\ Len(QueriesAt(r.ply)) = 3

\* a record for the second ply, after the six queries of two plies
C18_Witness ==
    /\ Len(qlog) = 6
    /\ \E i \in DOMAIN result.errors :
          /\ result.errors[i].ply = 2
          /\ result.errors[i].fen_before = [turn |-> WHITE, pushed |-> 1]
          /\ result.errors[i].best_uci.alt = 2

\* the side whose move the ply p is
MoverIsWhite(p) == Replayed(p - 1).turn

\* C19: a ply of a side the filter leaves out gets no query and no record,
\* and yet the move is replayed and ply counted, so that at every ply the
\* position and the ply number are what they are without a filter.
C19_FilteredPlyStillReplayed ==
    wpc \notin {"idle", "begin"} =>
        /\ \A i \in DOMAIN qlog :
              ~Excluded(MoverIsWhite(qlog[i].ply), cfg.who)
        /\ \A i \in DOMAIN result.errors :
              /\ ~Excluded(MoverIsWhite(result.errors[i].ply), cfg.who)
              /\ result.errors[i].fen_before = Replayed(result.errors[i].ply - 1)
        /\ ply = node
        /\ wpc \in {"loop", "returned"} => board = Replayed(ply)
        /\ wpc \in {"best", "play", "played", "judge"} => board = Replayed(ply - 1)

\* only black is analysed: the record of ply 2 stands on the position after
\* one move, and the first ply was never asked about
C19_Witness ==
    /\ cfg.who = <<FALSE, TRUE>>
    /\ game.start = WHITE
    /\ Len(qlog) = 3
    /\ \E i \in DOMAIN result.errors :
          /\ result.errors[i].ply = 2
          /\ result.errors[i].who = "black"
          /\ result.errors[i].fen_before = [turn |-> BLACK, pushed |-> 1]

\* C20 as stated: in every record ply is the 1-based index of the half-move,
\* move_no is (ply + 1) div 2, and the side is white exactly when ply is odd,
\* whichever side moves first.
C20_SideByParity ==
    \A i \in DOMAIN result.errors :
       LET r == result.errors[i]
       IN /\ r.ply = r.fen_before.pushed + 1
          /\ r.move_no = (r.ply + 1) \div 2
          /\ (r.who = "white") <=> (r.ply % 2 = 1)

\* C20, amended: in every record ply is the 1-based index of the half-move,
\* move_no is (ply + 1) div 2, and the side is the side to move in fen_before:
\* white exactly when ply is odd if white moves first, and exactly when ply is
\* even if black moves first.
C20_SideByPosition ==
    \A i \in DOMAIN result.errors :
       LET r == result.errors[i]
       IN /\ r.ply = r.fen_before.pushed + 1
          /\ r.ply \in 1 .. game.n
          /\ r.move_no = (r.ply + 1) \div 2
          /\ (r.who = "white") <=> (r.fen_before.turn = WHITE)
          /\ (r.who = "white") <=> (game.start = WHITE <=> r.ply % 2 = 1)

\* black moves first and the first ply is recorded as black's
C20_Witness ==
    /\ game.start = BLACK
    /\ \E i \in DOMAIN result.errors :
          result.errors[i].ply = 1 /\ result.errors[i].who = "black"

(***************************************************************************)
(* Claims on the trainer (SpecTrainer)                                     *)
(***************************************************************************)
\* the last k handler outcomes
LastEvents(k) == IF Len(tlog) < k THEN <<>> ELSE SubSeq(tlog, Len(tlog) - k + 1, Len(tlog))
Ev(e, d) == [ev |-> e, depth |-> d]

C14_State ==
    /\ LastEvents(1) = <<Ev("success", 0)>> =>
          /\ tsuccess
          /\ tmsg = "ok"
          /\ tgame = <<BestUci(card)>>
          /\ tpending = 0
    /\ LastEvents(1) = <<Ev("wrong", 0)>> =>
          /\ Len(tgame) = 1
          /\ tgame[1] # BestUci(card)
          /\ tpending = 1
          /\ tmsg = "bad"
    /\ LastEvents(2) = <<Ev("wrong", 0), Ev("undo", 1)>> =>
          /\ tgame = <<>>
          /\ tshown = <<>>
          /\ tpending = 0
          /\ Gestures(tgame, card) # {}
    /\ LastEvents(3) = <<Ev("wrong", 0), Ev("undo", 1), Ev("success", 0)>> =>
          /\ tsuccess
          /\ tgame = <<BestUci(card)>>
          /\ tpending = 0

C14_Step ==
    /\ (tlog' # tlog /\ tlog'[Len(tlog')].ev = "illegal") =>
          UNCHANGED <<tgame, tshown, tpending, tsuccess, tmsg>>
    /\ (tgame # <<>> /\ tgame[1] = BestUci(card)) =>
          (tgame' # <<>> /\ tgame'[1] = tgame[1])

\* C14: an illegal proposal changes nothing; a legal move made on the
\* pre-move position whose coordinate form equals the best move signals
\* success and is never taken back; one that differs is followed by a
\* reversion after which the position is the pre-move one and a move can be
\* proposed again; a wrong attempt, its reversion and then the best move end
\* in success with no reversion left.
C14_AttemptOutcomes == [][C14_Step]_vars /\ []C14_State

\* a wrong attempt, its reversion, then the best move
C14_Witness ==
    /\ tlog = <<Ev("wrong", 0), Ev("undo", 1), Ev("success", 0)>>
    /\ tsuccess
    /\ tgame = <<BestUci(card)>>
    /\ tpending = 0

\* C15: every move the trainer accepts and compares is made on the card's
\* pre-move position, hence by the side to move there.
C15_OnlyPreMovePosition ==
    \A i \in DOMAIN tlog :
       tlog[i].ev \in {"success", "wrong"} => tlog[i].depth = 0

(***************************************************************************)
(* Claims on termination and on the records of one game                    *)
(***************************************************************************)
\* fetch_pgns has returned or raised, or main has run its finally block
Terminated == fpc \in {"returned", "raised"} \/ rpc = "done"

\* the call of analyze_pgn on a parsed game has ended, by return or by raise
Ended == wpc \in {"returned", "raised"} /\ game.kind = "game"

\* what holds of retrieval, of the loop over the games and of the connection
C21_Run ==
    /\ Len(attemptLog) <= 2 * Len(Attempts(perf))
    /\ rpc \in {"loop", "closing", "done"} /\ mpgns # <<>> => Len(outcomes) = gi - 1
    /\ rpc = "done" /\ mpgns # <<>> => Len(outcomes) = Len(mpgns)
    /\ rpc # "idle" /\ wpc # "idle" => gi \in DOMAIN mpgns /\ game = mpgns[gi]
    /\ rpc = "done" => quits = opens /\ wpc = "idle"

\* the moves of the game under analysis are taken and pushed one by one: the
\* move taken last is pushed once its three queries have been answered
C21_Moves ==
    /\ wpc \notin {"idle", "begin"} /\ game.kind = "game" => node = ply /\ node <= game.n
    /\ wpc \in {"loop", "returned"} /\ game.kind = "game" => board.pushed = node
    /\ wpc \in {"best", "play", "played", "judge"} => board.pushed = node - 1

\* a call that returns has pushed every move; a call that raises has pushed
\* the moves before the one whose query failed and no other, the whole
\* game when the connection could not be opened
C21_State ==
    /\ C21_Run
    /\ C21_Moves
    /\ wpc = "returned" /\ game.kind = "game" => node = game.n /\ board.pushed = game.n
    /\ wpc = "raised" /\ node > 0 => board.pushed = node - 1 /\ board.pushed < game.n
    /\ wpc = "raised" /\ node = 0 => board.pushed = 0
    /\ \A i \in DOMAIN outcomes :
          /\ outcomes[i].out = "returned" => outcomes[i].replayed = mpgns[i].n
          /\ outcomes[i].out = "raised" =>
                \/ outcomes[i].replayed < mpgns[i].n
                \/ mpgns[i].n = 0

C21_Step ==
    /\ gi' \in {gi, gi + 1}
    /\ wpc \notin {"idle", "returned", "raised"} =>
          /\ node' \in {node, node + 1}
          /\ wpc # "begin" => board'.pushed \in {board.pushed, board.pushed + 1}

\* every call on a parsed game that put a query to the oracle has, however
\* it ends, pushed all the moves
C21_AllMovesState ==
    /\ C21_Run
    /\ C21_Moves
    /\ Ended /\ qlog # <<>> => board.pushed = game.n

C22_State ==
    /\ \A i, j \in DOMAIN result.errors :
          i < j => result.errors[i].ply < result.errors[j].ply
    /\ \A i \in DOMAIN result.errors :
          result.errors[i].ply \in 1 .. game.n /\ result.errors[i].ply <= ply

C22_Step ==
    /\ Len(result'.errors) \in {Len(result.errors), Len(result.errors) + 1}
    /\ SubSeq(result'.errors, 1, Len(result.errors)) = result.errors
    /\ Len(result'.errors) > Len(result.errors) =>
          result'.errors[Len(result'.errors)].ply = ply

\* C22: in the result of one game the records stand in strictly increasing
\* order of ply, hence at most one per ply, each ply between 1 and the number
\* of moves; a step either leaves the records as they are or appends one, for
\* the current ply, after them.
C22_RecordsAppendOnly == []C22_State /\ [][C22_Step]_vars

\* two records, for the first ply and for the second
C22_Witness ==
    /\ Len(result.errors) = 2
    /\ result.errors[1].ply = 1
    /\ result.errors[2].ply = 2
    /\ wpc = "returned"

(***************************************************************************)
(* Claims on the trainer's reachability and interleavings (SpecTrainer)    *)
(***************************************************************************)
\* C23: on the pre-move position of every card there is a proposal the
\* trainer takes for the best move, whatever legal move the best move is, a
\* promotion to a piece other than the queen included.
C23_SuccessReachable ==
    tgame = <<>> =>
       \E g \in Gestures(tgame, card) : HandlerUci(g) = BestUci(card)

\* C24: whenever no reversion is pending the game stands on the pre-move
\* position if success is not shown and right after the best move played from
\* the pre-move position if it is; success is only ever shown for a move made
\* on the pre-move position, and the move it was shown for stays in the game.
C24_QuiescentPosition ==
    /\ tpending = 0 =>
          tgame = (IF tsuccess THEN <<BestUci(card)>> ELSE <<>>)
    /\ \A i \in DOMAIN tlog : tlog[i].ev = "success" => tlog[i].depth = 0
    /\ tsuccess => tgame # <<>> /\ tgame[1] = BestUci(card)

====
